---- MODULE Spec2Model ----
(***************************************************************************)
(* The two registration racers of the repository as state machines.        *)
(*                                                                         *)
(*   Spec        main.py: main() from the connection set-up to the final   *)
(*               report, with the pool's submission tasks and the success  *)
(*               watcher interleaved.                                      *)
(*   SpecEpoch   main.py: _wait_for_next_epoch_start alone, started on     *)
(*               every chain height of the bounds.                         *)
(*   SpecMonkey  monkey.py: main() with its window loop.                   *)
(*                                                                         *)
(* The ledger is the environment: every remote call returns one of the     *)
(* results the SDK can give, chosen nondeterministically.                  *)
(***************************************************************************)
EXTENDS Integers, Sequences, FiniteSets, TLC

\* ------------------------------------------------------------------ bounds
\* main.py:15 lists ten coldkey names; the model races NumNames of them.
NumNames == 3
\* main.py:17 caps the pool at 8 workers; scaled so that the cap binds.
MAX_WORKERS == 2
\* Clock ticks the race of main.py is followed for (one tick = one second).
MaxTime == 4
\* Largest membership index a lookup returns.
MaxUid == 1
\* Largest balance (in rao) get_balance returns.
MaxBal == 2
\* Largest burn cost (in rao) get_subnet_burn_cost returns.
MaxCost == 1
\* Highest block the chain reaches while the scheduler is followed.
MaxBlock == 4
\* Largest tempo (epoch length) the metagraph reports.
MaxTempo == 3

\* monkey.py:23 takes a comma-separated list of hotkey names.
NumHotkeys == 2
\* monkey.py:115 sets 12 seconds per block; scaled, one tick is one second.
BLOCK_TIME_S == 2
\* monkey.py:114 sets 360 blocks per cycle; scaled.
CYCLE_BLOCKS == 3
\* monkey.py:28 defaults --pre to 1.0275 seconds; rounded to whole ticks.
pre == 1
\* Clock ticks a run of monkey.py is followed for.
MkMaxTime == 14

\* ------------------------------------------------------- program constants
\* main.py:16, in seconds.
BROADCAST_TIMEOUT == 3

\* Python's None, a value outside every range of heights, balances and indices.
None == -1
Names == 1..NumNames

VARIABLES
    pc,             \* main.py: the line main() is at
    remote_called,  \* main.py: some remote ledger call has been made
    height,         \* highest block height the ledger has shown so far
    block,          \* _wait_for_next_epoch_start: local block
    epoch_length,   \* _wait_for_next_epoch_start: local epoch_length
    target_block,   \* _wait_for_next_epoch_start: local target_block
    now_block,      \* _wait_for_next_epoch_start: local now_block
    slept,          \* _wait_for_next_epoch_start has executed a time.sleep
    polled,         \* _wait_for_next_epoch_start has entered a polling loop
    burn_cost,      \* main.py: burn_cost
    wallets,        \* main.py: wallets, the loaded names in the order of the list
    now,            \* main.py: time.time(), in ticks since line 171
    end_time,       \* main.py: end_time
    submitted,      \* main.py: submitted, the list of (name, ok, info)
    success,        \* main.py: success, <<>> for None or <<name, uid>>
    success_event,  \* main.py: success_event.is_set()
    di,             \* main.py: index of the dispatch loop of line 205
    wi,             \* main.py: index of the watcher's loop of line 212
    tpc,            \* main.py: where the submit_one task of each name is
    bal,            \* main.py: submit_one's local bal of each name
    reg_calls,      \* main.py: number of _try_register calls made for each name
    confirmed,      \* main.py: names a lookup has returned a non-null, non-zero uid for
    report,         \* main.py: the branch of the final report taken
    mk_pc,          \* monkey.py: the line main() is at
    mk_now,         \* monkey.py: datetime.utcnow(), in ticks
    mk_remote,      \* monkey.py: some remote ledger call has been made
    mk_wallets,     \* monkey.py: len(wallets), one wallet per hotkey name given
    last_reg_time,  \* monkey.py: args.last_reg_time_utc, in ticks
    target_dt,      \* monkey.py: target_dt
    idx,            \* monkey.py: idx of the launch loop of line 167
    futures,        \* monkey.py: futures, the indices whose future is in the list
    mk_tpc,         \* monkey.py: where the attempt_with_wallet task of each index is
    mk_success,     \* monkey.py: success
    mk_ri,          \* monkey.py: index of the report loop of line 204
    mk_confirmed,   \* monkey.py: indices a lookup has returned a non-null uid for
    mk_report       \* monkey.py: the branch of the final report taken

schedVars == <<block, epoch_length, target_block, now_block, slept, polled>>
setupVars == <<burn_cost, wallets>>
raceVars == <<now, end_time, submitted, success, success_event, di, wi, tpc, bal,
              reg_calls, confirmed, report>>
mainVars == <<pc, remote_called, height, schedVars, setupVars, raceVars>>
mkVars == <<mk_pc, mk_now, mk_remote, mk_wallets, last_reg_time, target_dt, idx,
            futures, mk_tpc, mk_success, mk_ri, mk_confirmed, mk_report>>
vars == <<mainVars, mkVars>>

\* ------------------------------------------- _wait_for_next_epoch_start
\* subtensor.get_current_block() as _get_current_block sees it: the height,
\* which is at least the highest one shown so far, or None on an exception.
BlockReadings == {None} \cup (height..MaxBlock)

\* line 115 without its outer modulo
BlocksUntilNoWrap(b, p) == p - (b % p)

\* line 115
BlocksUntil(b, p) == (p - (b % p)) % p

TargetBlock(b, p) == b + BlocksUntil(b, p)

\* line 108
GetInitialBlock ==
    /\ pc = "l108"
    /\ \E r \in BlockReadings :
         /\ block' = r
         /\ height' = IF r = None THEN height ELSE r
    /\ pc' = "l109"
    /\ remote_called' = TRUE
    /\ UNCHANGED <<epoch_length, target_block, now_block, slept, polled>>
    /\ UNCHANGED <<setupVars, raceVars>>
    /\ UNCHANGED mkVars

\* lines 109-110: the metagraph query is not guarded, its exception leaves
\* the function.
GetMetagraph ==
    /\ pc = "l109"
    /\ \/ /\ \E p \in 1..MaxTempo : epoch_length' = p
          /\ pc' = "l112"
       \/ /\ pc' = "raised"
          /\ UNCHANGED epoch_length
    /\ UNCHANGED <<remote_called, height, block, target_block, now_block, slept, polled>>
    /\ UNCHANGED <<setupVars, raceVars>>
    /\ UNCHANGED mkVars

\* lines 112-119
ComputeTarget ==
    /\ pc = "l112"
    /\ IF block = None
         THEN /\ pc' = "returned"
              /\ UNCHANGED target_block
         ELSE /\ target_block' = TargetBlock(block, epoch_length)
              /\ pc' = IF BlocksUntil(block, epoch_length) = 0
                         THEN "returned" ELSE "l121"
    /\ UNCHANGED <<remote_called, height, block, epoch_length, now_block, slept, polled>>
    /\ UNCHANGED <<setupVars, raceVars>>
    /\ UNCHANGED mkVars

\* lines 121-127: one turn of the coarse loop
CoarsePoll ==
    /\ pc = "l121"
    /\ \E r \in BlockReadings :
         /\ now_block' = r
         /\ height' = IF r = None THEN height ELSE r
         /\ IF r = None \/ r >= target_block - 1
              THEN pc' = "l129" /\ UNCHANGED slept
              ELSE pc' = "l121" /\ slept' = TRUE
    /\ polled' = TRUE
    /\ UNCHANGED <<remote_called, block, epoch_length, target_block>>
    /\ UNCHANGED <<setupVars, raceVars>>
    /\ UNCHANGED mkVars

\* lines 129-135: one turn of the fine-grained loop
FinePoll ==
    /\ pc = "l129"
    /\ \E r \in BlockReadings :
         /\ now_block' = r
         /\ height' = IF r = None THEN height ELSE r
         /\ IF r = None \/ r >= target_block
              THEN pc' = "returned" /\ UNCHANGED slept
              ELSE pc' = "l129" /\ slept' = TRUE
    /\ polled' = TRUE
    /\ UNCHANGED <<remote_called, block, epoch_length, target_block>>
    /\ UNCHANGED <<setupVars, raceVars>>
    /\ UNCHANGED mkVars

InitSched ==
    /\ block = None
    /\ epoch_length = None
    /\ target_block = None
    /\ now_block = None
    /\ slept = FALSE
    /\ polled = FALSE

NoSuccess == <<>>

InitSetup ==
    /\ burn_cost = None
    /\ wallets = <<>>

InitRace ==
    /\ now = 0
    /\ end_time = None
    /\ submitted = <<>>
    /\ success = NoSuccess
    /\ success_event = FALSE
    /\ di = 1
    /\ wi = 1
    /\ tpc = [n \in Names |-> "none"]
    /\ bal = [n \in Names |-> None]
    /\ reg_calls = [n \in Names |-> 0]
    /\ confirmed = {}
    /\ report = "none"

Hotkeys == 0..(NumHotkeys - 1)

\* monkey.py before main() runs
InitMonkey ==
    /\ mk_pc = "l82"
    /\ mk_now = 0
    /\ mk_remote = FALSE
    /\ mk_wallets = 0
    /\ last_reg_time = 0
    /\ target_dt = None
    /\ idx = 0
    /\ futures = {}
    /\ mk_tpc = [i \in Hotkeys |-> "none"]
    /\ mk_success = FALSE
    /\ mk_ri = 0
    /\ mk_confirmed = {}
    /\ mk_report = "none"

InitEpoch ==
    /\ pc = "l108"
    /\ remote_called = TRUE
    /\ height \in 0..MaxBlock
    /\ InitSched
    /\ InitSetup
    /\ InitRace
    /\ InitMonkey

NextEpoch ==
    \/ GetInitialBlock
    \/ GetMetagraph
    \/ ComputeTarget
    \/ CoarsePoll
    \/ FinePoll

SpecEpoch == InitEpoch /\ [][NextEpoch]_vars

\* ---------------------------------------------------------- main.py: set-up
\* line 139: bt.subtensor(...) opens the connection, or raises
Connect ==
    /\ pc = "l139"
    /\ remote_called' = TRUE
    /\ pc' \in {"l141", "raised"}
    /\ UNCHANGED <<height, schedVars, setupVars, raceVars>>
    /\ UNCHANGED mkVars

\* lines 141-148: the cost (a positive amount) is fetched once;
\* USE_EPOCH_START is True, so the scheduler is entered next
GetRegistrationCost ==
    /\ pc = "l141"
    /\ \/ /\ \E c \in 1..MaxCost : burn_cost' = c
          /\ pc' = "l108"
       \/ /\ pc' = "raised"
          /\ UNCHANGED burn_cost
    /\ UNCHANGED <<remote_called, height, schedVars, wallets, raceVars>>
    /\ UNCHANGED mkVars

\* The names of L in the order of COLDKEY_NAMES.
InListOrder(L) ==
    CHOOSE s \in [1..Cardinality(L) -> L] :
        \A i, j \in 1..Cardinality(L) : i < j => s[i] < s[j]

\* lines 150-169: every name loads or is skipped at line 165. The scheduler's
\* locals are gone, and nothing reads the block height any more.
LoadWallets ==
    /\ pc = "returned"
    /\ \E L \in SUBSET Names :
         /\ wallets' = InListOrder(L)
         /\ pc' = IF L = {} THEN "l169" ELSE "l171"
    /\ block' = None
    /\ epoch_length' = None
    /\ target_block' = None
    /\ now_block' = None
    /\ slept' = FALSE
    /\ polled' = FALSE
    /\ height' = 0
    /\ UNCHANGED <<remote_called, burn_cost, raceVars>>
    /\ UNCHANGED mkVars

\* lines 171-178
StartRace ==
    /\ pc = "l171"
    /\ end_time' = now + BROADCAST_TIMEOUT
    /\ submitted' = <<>>
    /\ success' = NoSuccess
    /\ success_event' = FALSE
    /\ di' = 1
    /\ pc' = "l205"
    /\ UNCHANGED <<remote_called, height, schedVars, setupVars, now, wi, tpc, bal,
                   reg_calls, confirmed, report>>
    /\ UNCHANGED mkVars

\* ------------------------------------------------------------ main.py: race
Racing == pc \in {"l205", "l211", "l218", "l227", "l230"}

\* time.time() advances while the race runs
Tick ==
    /\ Racing
    /\ now < MaxTime
    /\ now' = now + 1
    /\ UNCHANGED <<pc, remote_called, height, schedVars, setupVars, end_time, submitted,
                   success, success_event, di, wi, tpc, bal, reg_calls,
                   confirmed, report>>
    /\ UNCHANGED mkVars

\* A pool with one worker thread for every wallet.
one_worker_per_wallet == Len(wallets)

\* line 202
max_workers ==
    LET n == IF Len(wallets) > 1 THEN Len(wallets) ELSE 1
    IN  IF MAX_WORKERS < n THEN MAX_WORKERS ELSE n

\* lines 205-208 submitting the first wallet on every turn
DispatchFirstWallet ==
    /\ pc = "l205"
    /\ IF di > Len(wallets) \/ now > end_time
         THEN /\ pc' = "l211"
              /\ UNCHANGED <<di, tpc>>
         ELSE /\ tpc' = [tpc EXCEPT ![wallets[1]] = "queued"]
              /\ di' = di + 1
              /\ pc' = "l205"
    /\ UNCHANGED <<remote_called, height, schedVars, setupVars, now, end_time, submitted,
                   success, success_event, wi, bal, reg_calls, confirmed, report>>
    /\ UNCHANGED mkVars

\* lines 205-208: one turn of the dispatch loop
Dispatch ==
    /\ pc = "l205"
    /\ IF di > Len(wallets) \/ now > end_time
         THEN /\ pc' = "l211"
              /\ UNCHANGED <<di, tpc>>
         ELSE /\ tpc' = [tpc EXCEPT ![wallets[di]] = "queued"]
              /\ di' = di + 1
              /\ pc' = "l205"
    /\ UNCHANGED <<remote_called, height, schedVars, setupVars, now, end_time, submitted,
                   success, success_event, wi, bal, reg_calls, confirmed, report>>
    /\ UNCHANGED mkVars

\* The tasks a worker thread of the pool is executing.
Running == {n \in Names : tpc[n] \in {"balance", "register"}}

\* line 55 with the comparison off by one
_compare_balances_le(a, b) == a <= b

\* lines 52-69 on two Balance values: the direct comparison of line 55
_compare_balances(a, b) == a < b

\* line 181: a free worker takes the oldest queued task, which checks the
\* signal and the deadline and, past them, calls _get_wallet_balance (line 184)
TaskStart(n) ==
    /\ tpc[n] = "queued"
    /\ \A m \in Names : tpc[m] = "queued" => n <= m
    /\ Cardinality(Running) < max_workers
    /\ tpc' = [tpc EXCEPT ![n] =
                 IF success_event \/ now > end_time THEN "ret182" ELSE "balance"]
    /\ UNCHANGED <<pc, remote_called, height, schedVars, setupVars, now, end_time,
                   submitted, success, success_event, di, wi, bal, reg_calls,
                   confirmed, report>>
    /\ UNCHANGED mkVars

\* lines 184-192: the balance comes back (None when it cannot be read); the
\* task returns at line 191 or calls _try_register
BalanceReturn(n) ==
    /\ tpc[n] = "balance"
    /\ \E b \in {None} \cup (0..MaxBal) :
         /\ bal' = [bal EXCEPT ![n] = b]
         /\ IF b # None /\ _compare_balances(b, burn_cost)
              THEN /\ tpc' = [tpc EXCEPT ![n] = "ret191"]
                   /\ UNCHANGED reg_calls
              ELSE /\ tpc' = [tpc EXCEPT ![n] = "register"]
                   /\ reg_calls' = [reg_calls EXCEPT ![n] = @ + 1]
    /\ UNCHANGED <<pc, remote_called, height, schedVars, setupVars, now, end_time,
                   submitted, success, success_event, di, wi, confirmed, report>>
    /\ UNCHANGED mkVars

\* lines 192-199 with the task declaring the win itself when its submission
\* is accepted
RegisterReturnSetsSignal(n) ==
    /\ tpc[n] = "register"
    /\ \E ok \in BOOLEAN :
         /\ submitted' = Append(submitted, <<n, ok, IF ok THEN "res" ELSE "exc">>)
         /\ success' = IF ok THEN <<n, 0>> ELSE success
         /\ success_event' = (ok \/ success_event)
    /\ tpc' = [tpc EXCEPT ![n] = "ret199"]
    /\ bal' = [bal EXCEPT ![n] = None]
    /\ UNCHANGED <<pc, remote_called, height, schedVars, setupVars, now, end_time,
                   di, wi, reg_calls, confirmed, report>>
    /\ UNCHANGED mkVars

\* lines 192-199: _try_register returns (True, res) or (False, str(e)) and the
\* record is appended under submitted_lock
RegisterReturn(n) ==
    /\ tpc[n] = "register"
    /\ \E ok \in BOOLEAN :
         submitted' = Append(submitted, <<n, ok, IF ok THEN "res" ELSE "exc">>)
    /\ tpc' = [tpc EXCEPT ![n] = "ret199"]
    /\ bal' = [bal EXCEPT ![n] = None]
    /\ UNCHANGED <<pc, remote_called, height, schedVars, setupVars, now, end_time,
                   success, success_event, di, wi, reg_calls, confirmed,
                   report>>
    /\ UNCHANGED mkVars

\* lines 212-216: the positions from i on the for loop can make its next
\* lookup at: reading w.hotkey.ss58_address may raise for any wallet, which is
\* then passed over; Len(wallets) + 1 stands for the end of the loop
NextLookups(i) == i..(Len(wallets) + 1)

\* A watcher that polls until the signal is set, whatever the time.
WatchCondNoDeadline ==
    /\ pc = "l211"
    /\ IF ~success_event
         THEN \E j \in NextLookups(1) :
                /\ wi' = IF j > Len(wallets) THEN 1 ELSE j
                /\ pc' = IF j > Len(wallets) THEN "l227" ELSE "l218"
         ELSE /\ pc' = "l230"
              /\ UNCHANGED wi
    /\ UNCHANGED <<remote_called, height, schedVars, setupVars, now, end_time, submitted,
                   success, success_event, di, tpc, bal, reg_calls, confirmed,
                   report>>
    /\ UNCHANGED mkVars

\* line 211 and the entry of the for loop of line 212
WatchCond ==
    /\ pc = "l211"
    /\ IF now < end_time /\ ~success_event
         THEN \E j \in NextLookups(1) :
                /\ wi' = IF j > Len(wallets) THEN 1 ELSE j
                /\ pc' = IF j > Len(wallets) THEN "l227" ELSE "l218"
         ELSE /\ pc' = "l230"
              /\ UNCHANGED wi
    /\ UNCHANGED <<remote_called, height, schedVars, setupVars, now, end_time, submitted,
                   success, success_event, di, tpc, bal, reg_calls, confirmed,
                   report>>
    /\ UNCHANGED mkVars

\* lines 218-226: _get_uid_for_hotkey returns for wallets[wi]
LookupReturn ==
    /\ pc = "l218"
    /\ \E uid \in {None} \cup (0..MaxUid) :
         IF uid # None /\ uid # 0
           THEN /\ confirmed' = confirmed \cup {wallets[wi]}
                /\ IF ~success_event
                     THEN /\ success' = <<wallets[wi], uid>>
                          /\ success_event' = TRUE
                     ELSE UNCHANGED <<success, success_event>>
                /\ pc' = "l227"
                /\ wi' = 1
           ELSE /\ \E j \in NextLookups(wi + 1) :
                     /\ wi' = IF j > Len(wallets) THEN 1 ELSE j
                     /\ pc' = IF j > Len(wallets) THEN "l227" ELSE "l218"
                /\ UNCHANGED <<confirmed, success, success_event>>
    /\ UNCHANGED <<remote_called, height, schedVars, setupVars, now, end_time, submitted,
                   di, tpc, bal, reg_calls, report>>
    /\ UNCHANGED mkVars

\* line 227
WatchSleep ==
    /\ pc = "l227"
    /\ pc' = "l211"
    /\ UNCHANGED <<remote_called, height, schedVars, setupVars, raceVars>>
    /\ UNCHANGED mkVars

\* lines 230-231 and the exit of the with block: every future has completed
Drain ==
    /\ pc = "l230"
    /\ \A n \in Names : tpc[n] \in {"none", "ret182", "ret191", "ret199"}
    /\ pc' = "l233"
    /\ UNCHANGED <<remote_called, height, schedVars, setupVars, raceVars>>
    /\ UNCHANGED mkVars

\* lines 233-238
Report ==
    /\ pc = "l233"
    /\ report' = IF success_event /\ success # NoSuccess THEN "succeeded" ELSE "no_registration"
    /\ pc' = "done"
    /\ UNCHANGED <<remote_called, height, schedVars, setupVars, now, end_time, submitted,
                   success, success_event, di, wi, tpc, bal, reg_calls, confirmed>>
    /\ UNCHANGED mkVars

Init ==
    /\ pc = "l139"
    /\ remote_called = FALSE
    /\ height \in 0..MaxBlock
    /\ InitSched
    /\ InitSetup
    /\ InitRace
    /\ InitMonkey

Next ==
    \/ Connect
    \/ GetRegistrationCost
    \/ GetInitialBlock
    \/ GetMetagraph
    \/ ComputeTarget
    \/ CoarsePoll
    \/ FinePoll
    \/ LoadWallets
    \/ StartRace
    \/ Tick
    \/ Dispatch
    \/ \E n \in Names : TaskStart(n)
    \/ \E n \in Names : BalanceReturn(n)
    \/ \E n \in Names : RegisterReturn(n)
    \/ WatchCond
    \/ LookupReturn
    \/ WatchSleep
    \/ Drain
    \/ Report

Spec == Init /\ [][Next]_vars

\* The main thread of main.py from the start of the race: it runs whenever it
\* is not blocked in the drain
MainThread ==
    StartRace \/ Dispatch \/ WatchCond \/ LookupReturn \/ WatchSleep \/ Drain \/ Report

\* The worker thread holding the task of wallet n: the pool starts a queued
\* task when a worker is free, and its remote calls return
WorkerThread(n) == TaskStart(n) \/ BalanceReturn(n) \/ RegisterReturn(n)

\* main.py with a clock that advances, a main thread and worker threads that
\* are scheduled, and remote calls that return
Fairness ==
    /\ WF_vars(Tick)
    /\ WF_vars(MainThread)
    /\ \A n \in Names : WF_vars(WorkerThread(n))

SpecLive == Init /\ [][Next]_vars /\ Fairness

\* ------------------------------------------------------------- monkey.py
\* lines 79-90: --hotkeys names one hotkey or more; every hotkey's wallet
\* loads and unlocks, or the first failure ends the run with sys.exit(1)
MkLoadWallets ==
    /\ mk_pc = "l82"
    /\ \/ /\ \E k \in 1..NumHotkeys : mk_wallets' = k
          /\ mk_pc' = "l99"
          /\ UNCHANGED mk_report
       \/ /\ mk_pc' = "exit1"
          /\ mk_report' = "setup_failed"
          /\ UNCHANGED mk_wallets
    /\ UNCHANGED <<mk_now, mk_remote, last_reg_time, target_dt, idx, futures, mk_tpc,
                   mk_success, mk_ri, mk_confirmed>>
    /\ UNCHANGED mainVars

\* lines 99-112: the main connection sub and one connection per wallet
MkConnect ==
    /\ mk_pc = "l99"
    /\ mk_remote' = TRUE
    /\ mk_pc' \in {"l142", "raised"}
    /\ UNCHANGED <<mk_now, mk_wallets, last_reg_time, target_dt, idx, futures, mk_tpc,
                   mk_success, mk_ri, mk_confirmed, mk_report>>
    /\ UNCHANGED mainVars

\* line 99: the main connection, used by the main thread only
sub == 0

\* One connection for every wallet.
subs_shared(i) == 1

\* lines 104-112 and 180: the connection made for the wallet at index i and
\* handed to its task
subs_for_wallets(i) == i + 1

\* The connections of a run.
Connections == {sub} \cup {subs_for_wallets(i) : i \in Hotkeys}

\* The calls in flight on connection c: a running task calls burned_register on
\* its local_sub (line 130); the main thread calls on every connection while it
\* connects (lines 99-112), and on sub for the burn cost (line 158) and the
\* lookups (line 206)
MkCallsOn(c) ==
    Cardinality({i \in Hotkeys : mk_tpc[i] = "running" /\ subs_for_wallets(i) = c})
        + (IF \/ mk_pc = "l99"
              \/ c = sub /\ mk_pc \in {"l155", "l204"}
             THEN 1 ELSE 0)

\* line 145
cycle_seconds == CYCLE_BLOCKS * BLOCK_TIME_S

\* lines 146-149: the anchor moved on by whole cycles until it is after t
RECURSIVE NextTarget(_, _)
NextTarget(last, t) ==
    IF last <= t THEN NextTarget(last + cycle_seconds, t) ELSE last

\* A loop that gives up after its first window.
MkWindowOnce ==
    /\ mk_pc = "l142"
    /\ IF mk_success \/ target_dt # None
         THEN /\ mk_pc' = "l202"
              /\ UNCHANGED target_dt
         ELSE /\ target_dt' = NextTarget(last_reg_time, mk_now)
              /\ mk_pc' = "l155"
    /\ UNCHANGED <<mk_now, mk_remote, mk_wallets, last_reg_time, idx, futures, mk_tpc, mk_success,
                   mk_ri, mk_confirmed, mk_report>>
    /\ UNCHANGED mainVars

\* lines 142-153: the loop test and the target of the next window
MkWindow ==
    /\ mk_pc = "l142"
    /\ IF mk_success
         THEN /\ mk_pc' = "l202"
              /\ UNCHANGED target_dt
         ELSE /\ target_dt' = NextTarget(last_reg_time, mk_now)
              /\ mk_pc' = "l155"
    /\ UNCHANGED <<mk_now, mk_remote, mk_wallets, last_reg_time, idx, futures, mk_tpc, mk_success,
                   mk_ri, mk_confirmed, mk_report>>
    /\ UNCHANGED mainVars

\* lines 151-165: the sleep to start_dt is over (or was not needed), the burn
\* cost is read on sub and a new executor and futures list are made
MkOpenWindow ==
    /\ mk_pc = "l155"
    /\ mk_now >= target_dt - pre
    /\ mk_remote' = TRUE
    /\ idx' = 0
    /\ futures' = {}
    /\ mk_tpc' = [i \in Hotkeys |->
                    IF mk_tpc[i] = "running" THEN "running" ELSE "none"]
    /\ mk_pc' = "l167"
    /\ UNCHANGED <<mk_now, mk_wallets, last_reg_time, target_dt, mk_success, mk_ri,
                   mk_confirmed, mk_report>>
    /\ UNCHANGED mainVars

\* Every wallet launched at the start of the window.
launch_at_window_start(i) == target_dt - pre

\* line 170
launch_dt(i) == target_dt + i * BLOCK_TIME_S - pre

\* lines 167-180: one turn of the launch loop; the sleep of line 177 ends at
\* launch_dt or later
MkLaunch ==
    /\ mk_pc = "l167"
    /\ IF idx >= mk_wallets
         THEN /\ mk_pc' = "l183"
              /\ UNCHANGED <<idx, futures, mk_tpc>>
         ELSE /\ mk_now >= launch_dt(idx)
              /\ mk_tpc' = [mk_tpc EXCEPT ![idx] = "running"]
              /\ futures' = futures \cup {idx}
              /\ idx' = idx + 1
              /\ mk_pc' = "l167"
    /\ UNCHANGED <<mk_now, mk_remote, mk_wallets, last_reg_time, target_dt, mk_success, mk_ri,
                   mk_confirmed, mk_report>>
    /\ UNCHANGED mainVars

\* lines 128-138: burned_register on the wallet's own connection returns, or
\* raises and the task returns False
MkTaskReturn(i) ==
    /\ mk_tpc[i] = "running"
    /\ \E r \in {"true", "false"} : mk_tpc' = [mk_tpc EXCEPT ![i] = r]
    /\ UNCHANGED <<mk_pc, mk_now, mk_remote, mk_wallets, last_reg_time, target_dt, idx, futures,
                   mk_success, mk_ri, mk_confirmed, mk_report>>
    /\ UNCHANGED mainVars

\* The futures of the list that have completed.
DoneFutures == {i \in futures : mk_tpc[i] \in {"true", "false"}}

\* lines 183-192: the loop test and one wait() that returns completed futures
MkWait ==
    /\ mk_pc = "l183"
    /\ IF futures = {} \/ mk_success
         THEN /\ mk_pc' = "l195"
              /\ UNCHANGED <<futures, mk_success>>
         ELSE /\ DoneFutures # {}
              /\ mk_success' = (\E i \in DoneFutures : mk_tpc[i] = "true")
              /\ futures' = futures \ DoneFutures
              /\ mk_pc' = "l183"
    /\ UNCHANGED <<mk_now, mk_remote, mk_wallets, last_reg_time, target_dt, idx, mk_tpc, mk_ri,
                   mk_confirmed, mk_report>>
    /\ UNCHANGED mainVars

\* lines 195-200: shutdown(wait=False) returns at once; without success the
\* anchor becomes this window's target
MkShutdown ==
    /\ mk_pc = "l195"
    /\ last_reg_time' = IF mk_success THEN last_reg_time ELSE target_dt
    /\ mk_pc' = "l142"
    /\ UNCHANGED <<mk_now, mk_remote, mk_wallets, target_dt, idx, futures, mk_tpc, mk_success, mk_ri,
                   mk_confirmed, mk_report>>
    /\ UNCHANGED mainVars

\* lines 202-203 and 211-213
MkReport ==
    /\ mk_pc = "l202"
    /\ IF mk_success
         THEN mk_report' = "succeeded" /\ mk_pc' = "l204"
         ELSE mk_report' = "failed" /\ mk_pc' = "exit1"
    /\ mk_ri' = 0
    /\ UNCHANGED <<mk_now, mk_remote, mk_wallets, last_reg_time, target_dt, idx, futures, mk_tpc,
                   mk_success, mk_confirmed>>
    /\ UNCHANGED mainVars

\* lines 204-210: one turn of the report loop, a lookup on sub
MkReportLookup ==
    /\ mk_pc = "l204"
    /\ IF mk_ri >= mk_wallets
         THEN /\ mk_pc' = "done"
              /\ UNCHANGED <<mk_ri, mk_confirmed>>
         ELSE /\ \E uid \in {None} \cup (0..MaxUid) :
                   mk_confirmed' = IF uid # None /\ uid # 0
                                     THEN mk_confirmed \cup {mk_ri} ELSE mk_confirmed
              /\ mk_ri' = mk_ri + 1
              /\ mk_pc' = "l204"
    /\ UNCHANGED <<mk_now, mk_remote, mk_wallets, last_reg_time, target_dt, idx, futures, mk_tpc,
                   mk_success, mk_report>>
    /\ UNCHANGED mainVars

\* datetime.utcnow() advances
MkTick ==
    /\ mk_pc \notin {"done", "exit1", "raised"}
    /\ mk_now < MkMaxTime
    /\ mk_now' = mk_now + 1
    /\ UNCHANGED <<mk_pc, mk_remote, mk_wallets, last_reg_time, target_dt, idx, futures, mk_tpc,
                   mk_success, mk_ri, mk_confirmed, mk_report>>
    /\ UNCHANGED mainVars

InitMk ==
    /\ InitMonkey
    /\ pc = "l139"
    /\ remote_called = FALSE
    /\ height = 0
    /\ InitSched
    /\ InitSetup
    /\ InitRace

NextMonkey ==
    \/ MkLoadWallets
    \/ MkConnect
    \/ MkWindow
    \/ MkOpenWindow
    \/ MkLaunch
    \/ \E i \in Hotkeys : MkTaskReturn(i)
    \/ MkWait
    \/ MkShutdown
    \/ MkReport
    \/ MkReportLookup
    \/ MkTick

SpecMonkey == InitMk /\ [][NextMonkey]_vars

\* ------------------------------------------------------------------ claims
\* The remote calls in flight on main.py's only connection, subtensor: the
\* tasks inside _get_wallet_balance or _try_register (lines 184, 192) and the
\* watcher inside _get_uid_for_hotkey (line 218).
CallsOnSubtensor == Cardinality(Running) + (IF pc = "l218" THEN 1 ELSE 0)

\* The records of the attempt log that carry name n.
RecordsOf(n) == {i \in 1..Len(submitted) : submitted[i][1] = n}

\* C1: in main.py, once the success signal is set it is never cleared and its
\* payload never changes, and a set signal always carries a payload.
SuccessSignalSetOnce ==
    [][/\ success_event => (success_event' /\ success' = success)
       /\ success_event' => success' # NoSuccess]_vars

\* C1 witness: the signal is set while a submission is still in flight.
SignalSetDuringSubmission ==
    success_event /\ \E n \in Names : tpc[n] = "register"

\* C2: in main.py, no _try_register call begins in a state where the success
\* signal is set or the deadline has passed.
NoSubmissionAfterSignalOrDeadline ==
    [][\A n \in Names :
         (tpc[n] # "register" /\ tpc'[n] = "register")
             => (~success_event /\ ~(now > end_time))]_vars

\* C3: in main.py, the attempt log holds at most one record per identity and
\* _try_register is called at most once per identity.
OneAttemptPerIdentity ==
    \A n \in Names : reg_calls[n] <= 1 /\ Cardinality(RecordsOf(n)) <= 1

\* C3 witness: a finished cycle in which several identities submitted.
SeveralIdentitiesSubmitted ==
    pc = "done" /\ Len(wallets) > 1 /\ Len(submitted) = Len(wallets)

\* C4: in both variants, once the orchestrator has left the racing phase (the
\* final report, or the next window), no dispatched task is still running.
NoTaskSurvivesTheRace ==
    /\ pc \in {"l233", "done"}
         => \A n \in Names : tpc[n] \notin {"queued", "balance", "register"}
    /\ mk_pc \in {"l142", "l155", "l202", "l204", "done"}
         => \A i \in Hotkeys : mk_tpc[i] # "running"

\* C5: in main.py, at most one remote call is in flight on a connection at
\* any time.
ConnectionUsedByOne == CallsOnSubtensor <= 1

\* C6: in both variants, the race is declared won only when a membership
\* lookup has returned a non-null, non-zero index.
WinOnlyOnMembership ==
    /\ success_event => confirmed # {}
    /\ mk_success => mk_confirmed # {}

\* C7: the target block of _wait_for_next_epoch_start is at or after the
\* height read, a multiple of the period and less than one period away; on a
\* boundary the target is the height and the scheduler returns without waiting.
EpochTargetAligned ==
    target_block # None =>
        /\ target_block >= block
        /\ target_block % epoch_length = 0
        /\ target_block - block < epoch_length
        /\ block % epoch_length = 0 =>
             (target_block = block /\ pc = "returned" /\ ~slept /\ ~polled)

\* C7 witness: the scheduler has waited for a target beyond the height read.
WaitedForLaterTarget ==
    pc = "returned" /\ target_block # None /\ target_block > block /\ epoch_length > 1

\* C8: in main.py, a task past its initial check calls _try_register exactly
\* when its balance is unknown or at least the cost.
BalanceGateDecides ==
    \A n \in Names :
        tpc[n] \in {"register", "ret191"} =>
            (reg_calls[n] = 1 <=> (bal[n] = None \/ bal[n] >= burn_cost))

\* C8 witness: one task submits on a balance equal to the cost while another
\* was turned away by the gate.
GateAdmitsAndRejects ==
    \E n, m \in Names :
        /\ tpc[n] = "register" /\ bal[n] = burn_cost
        /\ tpc[m] = "ret191"

\* C9: at the end of a main.py cycle the attempt log holds a record for every
\* identity handed to the coordinator.
EveryIdentityRecorded ==
    pc = "done" => \A i \in 1..Len(wallets) : RecordsOf(wallets[i]) # {}

\* C10: in both variants, a run that loads no identity has made no remote
\* ledger call.
NoWalletsNoRemoteCall ==
    /\ pc = "l169" => ~remote_called
    /\ (mk_pc = "exit1" /\ mk_report = "setup_failed") => ~mk_remote

\* C11: when the block height cannot be read, _wait_for_next_epoch_start
\* returns without a sleep and without entering a polling loop.
NoHeightNoWait ==
    (block = None /\ pc \in {"l109", "l112", "l121", "l129", "returned", "raised"})
        => (~slept /\ ~polled /\ pc \in {"l109", "l112", "returned"})

\* C12: in monkey.py, the window started after a window without success has
\* a target strictly later than the target just raced.
NextWindowStrictlyLater ==
    [][(mk_pc = "l142" /\ mk_pc' = "l155" /\ target_dt # None)
          => target_dt' > target_dt]_vars

\* C13: when the first height read was below the target, the scheduler returns
\* only after a poll has shown a height at or beyond the target.
ReturnsAfterSeeingTarget ==
    (pc = "returned" /\ target_block # None /\ block < target_block)
        => (now_block # None /\ now_block >= target_block)

\* C14: _wait_for_next_epoch_start never raises.
SchedulerNeverRaises == pc # "raised"

\* C15: in monkey.py, no identity's submission is launched once the attempt of
\* an earlier identity of the window has returned success.
NoLaunchAfterEarlierSuccess ==
    [][\A i \in Hotkeys :
          (mk_tpc[i] # "running" /\ mk_tpc'[i] = "running")
              => ~(\E j \in Hotkeys : j < i /\ mk_tpc[j] = "true")]_vars

\* C16: in monkey.py, no connection ever has two calls in flight, whether of
\* two running tasks or of a running task and the main thread, and a wallet's
\* connection is idle when its task is launched, in every window.
OwnConnectionPerTask ==
    /\ \A c \in Connections : MkCallsOn(c) <= 1
    /\ (mk_pc = "l167" /\ idx < mk_wallets) => MkCallsOn(subs_for_wallets(idx)) = 0

\* C16 witness: both tasks of a later window run at once.
TwoTasksInLaterWindow ==
    /\ \A i \in Hotkeys : mk_tpc[i] = "running"
    /\ last_reg_time > 0

\* C17: in main.py, at most min(MAX_WORKERS, max(1, number of wallets)) tasks
\* execute at once, and the task of the k-th wallet has started only when at
\* least k minus that cap of the tasks before it have finished.
PoolCapRespected ==
    LET len == Len(wallets)
        atLeastOne == IF len > 1 THEN len ELSE 1
        cap == IF MAX_WORKERS < atLeastOne THEN MAX_WORKERS ELSE atLeastOne
        Finished(n) == tpc[n] \in {"ret182", "ret191", "ret199"}
    IN  /\ Cardinality(Running) <= cap
        /\ \A k \in 1..len :
              tpc[wallets[k]] \notin {"none", "queued"}
                  => Cardinality({j \in 1..(k - 1) : Finished(wallets[j])}) >= k - cap

\* C17 witness: the pool is full and the last wallet, beyond the cap, is
\* executing.
LastWalletRunsInFullPool ==
    /\ Len(wallets) > MAX_WORKERS
    /\ wallets[Len(wallets)] \in Running
    /\ Cardinality(Running) = MAX_WORKERS

\* C18: in a monkey.py window with target target_dt, the submission of index i
\* is launched no earlier than target_dt + i * BLOCK_TIME_S - pre, after every
\* index before it and before every index after it.
StaggeredLaunchInListOrder ==
    [][\A i \in Hotkeys :
          (mk_tpc[i] # "running" /\ mk_tpc'[i] = "running")
              => /\ mk_now >= target_dt + i * BLOCK_TIME_S - pre
                 /\ \A j \in Hotkeys : j < i => mk_tpc[j] # "none"
                 /\ \A j \in Hotkeys : j > i => mk_tpc[j] = "none"]_vars

\* C18 witness: the second submission has just been launched, at the first
\* moment allowed to it.
SecondLaunchedOnTime ==
    /\ mk_pc = "l167"
    /\ idx = 2
    /\ mk_tpc[1] = "running"
    /\ mk_now = target_dt + BLOCK_TIME_S - pre

CycleAlwaysEnds ==
    /\ (pc = "l171") ~> (pc = "done")
    /\ [][(pc = "l211" /\ (success_event \/ now >= end_time))
             => pc' \in {"l211", "l230"}]_vars

\* C19 witness: the report is reached by the deadline alone, after tasks were
\* dispatched and with the signal never set.
EndedByDeadline ==
    /\ pc = "done"
    /\ ~success_event
    /\ now >= end_time
    /\ Len(submitted) > 0

====
